---- MODULE Spec2Model ----
(***************************************************************************)
(* A model of the microenv package (ceil-go/microenv): the MicroEnv store, *)
(* its Awaiter, Get / Set / Call, the Face table and the Descriptor.       *)
(* The store is used by concurrent goroutines; every action below is one   *)
(* atomic step of a handler: one sync.Map operation, one critical section  *)
(* of a mutex, or one call of user code (a hook, a stored callable).       *)
(* The model follows src/unnamed/part_000 (the variant the tests of        *)
(* src/microenv_test.go are written against).                              *)
(***************************************************************************)
EXTENDS Integers, Sequences, FiniteSets, TLC

\* ------------------------------------------------------------------ bounds
NumProcs == 2          \* goroutines using the store concurrently
MaxOps == 3            \* calls made in a behaviour of Spec
MaxConcOps == 3        \* calls made in a behaviour of SpecConc
MaxRaceOps == 5        \* calls made in a behaviour of SpecRace
MaxLiveOps == 3        \* calls made in a behaviour of SpecLive
MaxTagOps == 2         \* calls made in a behaviour of SpecTag
MaxOnceOps == 3        \* calls made in a behaviour of SpecOnce

Procs == 1..NumProcs

\* ------------------------------------------------------------------ values
\* Go values the clients store and pass, by name.
Keys == {"a", "b"}
Owner == ""                          \* the empty caller identity
Callers == {Owner, "admin"}
Absent == "<absent>"                 \* sync.Map.Load's ok = false
Nil == "nil"                         \* Go's nil interface value
Numbers == {"n1", "n2"}              \* int values
Strings == {"q"}                     \* string values
Slices == {"ints"}                   \* []int values
\* stored callables:
\*   f3  func(payload interface{}, env *MicroEnv, caller interface{}) string
\*   f3s func(payload string, env *MicroEnv, caller interface{}) string
\*   f2  func(a, b interface{}) int
\*   f1  func(a int)
Funcs == {"f3", "f3s", "f2", "f1"}
Vals == {Nil} \cup Numbers \cup Strings \cup Slices \cup Funcs

\* values of the other kinds simpleType distinguishes
Bools == {"true"}                    \* bool
Floats == {"1.1"}                    \* float64
Arrays == {"[2]int"}                 \* array
Maps == {"map"}                      \* map[string]int
Structs == {"struct"}                \* customstruct{}
Chans == {"chan"}                    \* chan int
\* pointers: to a struct, to an int, to a pointer to an int, the nil *int,
\* a pointer to the nil *int, and a *interface{} whose referent is nil
Pointers == {"&struct", "&n1", "&&n1", "(*int)(nil)", "&(*int)(nil)",
             "&nil"}
Invalid == "<invalid>"               \* the zero reflect.Value
Fault == "<panic>"                   \* the call panics

\* reflect.Indirect(reflect.ValueOf(v)) of a pointer: the Value it points
\* to, the zero Value for a nil pointer
Indirect(v) ==
  CASE v = "&struct" -> "struct"
    [] v = "&n1" -> "n1"
    [] v = "&&n1" -> "&n1"
    [] v = "(*int)(nil)" -> Invalid
    [] v = "&(*int)(nil)" -> "(*int)(nil)"
    [] v = "&nil" -> Nil

\* reflect.ValueOf(v).Kind()
KindOf(v) ==
  CASE v = Nil -> "invalid"
    [] v \in Numbers -> "int"
    [] v \in Strings -> "string"
    [] v \in Slices -> "slice"
    [] v \in Funcs -> "func"
    [] v \in Bools -> "bool"
    [] v \in Floats -> "float64"
    [] v \in Arrays -> "array"
    [] v \in Maps -> "map"
    [] v \in Structs -> "struct"
    [] v \in Chans -> "chan"
    [] v \in Pointers -> "ptr"
    [] OTHER -> "string"             \* a get-hook's "CUSTOM-<key>" string

\* the declared parameter types of a stored callable (reflect's typ.In(i))
ParamTypes(f) ==
  CASE f = "f3" -> <<"interface", "*MicroEnv", "interface">>
    [] f = "f3s" -> <<"string", "*MicroEnv", "interface">>
    [] f = "f2" -> <<"interface", "interface">>
    [] f = "f1" -> <<"int">>

\* typ.NumIn()
NumIn(f) == Len(ParamTypes(f))

\* the dynamic type of an argument Call passes
TypeOfArg(v) ==
  CASE v \in Numbers -> "int"
    [] v \in Strings \cup Callers -> "string"
    [] v \in Slices -> "[]int"
    [] OTHER -> "*MicroEnv"

\* what the stored callables return: f3 and f3s return one string built
\* from the payload ("hi:" + payload in the tests)
FnResults(f, payload) == << <<f, payload>> >>

\* simpleType(val): the coarse type tag of a value. For a pointer it tags
\* reflect.Indirect(reflect.ValueOf(val)).Interface(), and Interface() panics
\* on the zero Value.
RECURSIVE simpleType(_)
simpleType(v) ==
  CASE v = Nil -> "null"
    [] KindOf(v) = "bool" -> "boolean"
    [] KindOf(v) = "string" -> "string"
    [] KindOf(v) \in {"int", "float64"} -> "number"
    [] KindOf(v) = "func" -> "function"
    [] KindOf(v) \in {"slice", "array"} -> "array"
    [] KindOf(v) \in {"map", "struct"} -> "object"
    [] KindOf(v) = "ptr" ->
         IF Indirect(v) = Invalid THEN Fault ELSE simpleType(Indirect(v))
    [] KindOf(v) = "chan" -> "promise"
    [] OTHER -> "object"

\* ------------------------------------------------------------------- state
VARIABLES
  Data,              \* MicroEnv.Data: key -> value, Absent when not stored
  awaiters,          \* MicroEnv.awaiters: key -> index into aws, 0 when none
  aws,               \* the Awaiter objects made so far: [done, val, chs]
  chans,             \* the channels made by addWaiter: [buf, closed]
  face,              \* MicroEnv.face: the keys that have an accessor pair
  customGet,         \* whether WithCustomGet installed a get-hook
  customSet,         \* whether WithCustomSet installed a set-hook
  customDescriptor,  \* [given, children]: WithCustomDescriptor's argument
  lastHook,          \* the last call a hook has received
  crashed,           \* an unrecovered panic has ended the program
  pc,                \* per goroutine: the step of the handler it is in
  loc,               \* per goroutine: the handler's arguments and locals
  ret,               \* per goroutine: what its last call returned
  recvd,             \* per channel: the values received from it so far
  initData,          \* history: the data given to NewMicroEnv
  nops,              \* history: calls begun so far (numbers the calls)
  quota,             \* calls a behaviour may begin
  hinfo,             \* history, per channel: how it was handed out
  doneSets,          \* history, per key: the Set calls that have returned
  mine,              \* history, per goroutine: the Set it made as its last
                     \* call; val is Absent once another goroutine has
                     \* stored the key since
  writes             \* history, per key: the values Sets have stored and
                     \* the number of the call that stored last

vars == <<Data, awaiters, aws, chans, face, customGet, customSet,
          customDescriptor, lastHook, crashed, pc, loc, ret, recvd,
          initData, nops, quota, hinfo, doneSets, mine, writes>>

NoAw == 0
NoHook == [fn |-> "none", key |-> Absent, val |-> Nil, caller |-> Owner,
           id |-> 0]
NoWrites == [vals |-> {}, last |-> 0]
NoMine == [key |-> Absent, val |-> Nil, asked |-> Absent]

IdleLoc == [key |-> Absent, val |-> Nil, caller |-> Owner, aw |-> NoAw,
            id |-> 0, old |-> Absent, owes |-> {}, solo |-> TRUE,
            quiet |-> TRUE, after |-> {}, asked |-> Absent, hooks |-> 0]

NoRet == [op |-> "none", key |-> Absent, next |-> FALSE, caller |-> Owner,
          val |-> Nil, found |-> FALSE, ch |-> 0, results |-> <<>>,
          invoked |-> FALSE, keys |-> {}, desc |-> <<>>, id |-> 0,
          old |-> Absent, owes |-> {}, solo |-> TRUE, ryw |-> Absent,
          asked |-> Absent, rywAsked |-> Absent, hooks |-> 0,
          own |-> FALSE]

SetPcs == {"set_hook", "set_load", "set_resolve", "set_delete", "set_face"}

\* goroutines inside Set(k, ...) other than p
InSet(k, p) == {q \in Procs \ {p} : pc[q] \in SetPcs /\ loc[q].key = k}

\* the keys that hold a value (what Data.Range visits)
DataKeys == {k \in Keys : Data[k] # Absent}

\* the keys the descriptor declares: the explicit descriptor's, or else the
\* keys of the initial data
DescriptorKeys(d) == {d[i].key : i \in 1..Len(d)}
InitKeys == {k \in Keys : initData[k] # Absent}
Declared ==
  IF customDescriptor.given THEN DescriptorKeys(customDescriptor.children)
  ELSE InitKeys
PrivateKeys ==
  IF customDescriptor.given
  THEN {customDescriptor.children[i].key :
          i \in {j \in 1..Len(customDescriptor.children) :
                   customDescriptor.children[j].private}}
  ELSE {}

\* ----------------------------------------------------------------- Awaiter
ChanCap == 1                         \* make(chan interface{}, 1)

\* newAwaiter(); "by" is history: the number of the Set call that resolved it
newAwaiter == [done |-> FALSE, val |-> Nil, chs |-> <<>>, by |-> 0]

\* addWaiter, under w.mu: the channel it makes and what becomes of w.
\* c is the new channel's index in chans.
addWaiterPending(w, c) ==
  [w |-> [w EXCEPT !.chs = Append(@, c)],
   ch |-> [buf |-> <<>>, closed |-> FALSE]]
addWaiter(w, c) ==
  IF w.done
  THEN [w |-> w, ch |-> [buf |-> <<w.val>>, closed |-> TRUE]]
  ELSE [w |-> [w EXCEPT !.chs = Append(@, c)],
        ch |-> [buf |-> <<>>, closed |-> FALSE]]

\* resolve(val), under w.mu: what becomes of w
resolveAgain(w, val, id) ==
  [w EXCEPT !.done = TRUE, !.val = val, !.chs = <<>>, !.by = id]
resolve(w, val, id) ==
  IF w.done THEN w
  ELSE [w EXCEPT !.done = TRUE, !.val = val, !.chs = <<>>, !.by = id]

\* the channels resolve(val) sends to and closes
resolveFirstOnly(w) ==
  IF w.done \/ w.chs = <<>> THEN {} ELSE {w.chs[1]}
resolveTargets(w) ==
  IF w.done THEN {} ELSE {w.chs[i] : i \in 1..Len(w.chs)}

\* resolve(val): ch <- val; close(ch) for each registered channel
resolveChans(cs, w, val) ==
  [c \in DOMAIN cs |->
     IF c \in resolveTargets(w)
     THEN [buf |-> Append(cs[c].buf, val), closed |-> TRUE]
     ELSE cs[c]]

\* a send blocks on a full buffer and panics on a closed channel
SendBlocksUnbuffered(cs, w) == resolveTargets(w) # {}
SendBlocks(cs, w) == \E c \in resolveTargets(w) : Len(cs[c].buf) >= ChanCap
SendPanics(cs, w) == \E c \in resolveTargets(w) : cs[c].closed

\* what the handle has yielded and will yield to receives, in order
Yields(h) == recvd[h] \o chans[h].buf

\* ------------------------------------------------------------ sync.Map
Load(m, k) == m[k]
StoreLost(m, k, v) == m
Store(m, k, v) == [m EXCEPT ![k] = v]
DeleteNone(m, k) == m
DeleteAll(m, k) == [x \in DOMAIN m |-> NoAw]
Delete(m, k) == [m EXCEPT ![k] = NoAw]
\* LoadOrStore's "loaded": the key had an entry, which is returned; otherwise
\* the new value is stored and returned, in the same atomic step
LoadOrStoreNeverLoaded(m, k) == FALSE
LoadOrStoreLoaded(m, k) == Load(m, k) # NoAw

\* ----------------------------------------------------------------- hooks
\* the get-hook of the tests: return "CUSTOM-" + key, true
CustomGetHook(key, caller) == [val |-> "CUSTOM-" \o key, found |-> TRUE]

\* ------------------------------------------------------------------ Init
InitDatas ==
  { [k \in Keys |-> Absent],
    [k \in Keys |-> IF k = "a" THEN "n1" ELSE Absent],
    [k \in Keys |-> IF k = "a" THEN "f3" ELSE "q"] }

NoDescriptor == [given |-> FALSE, children |-> <<>>]
Descriptors ==
  { NoDescriptor,
    [given |-> TRUE,
     children |-> << [key |-> "a", type |-> "number", private |-> FALSE],
                     [key |-> "b", type |-> "string", private |-> TRUE] >>] }

\* NewMicroEnv(data, opts...)
NewMicroEnv(data, get, set, desc) ==
  /\ Data = data
  /\ awaiters = [k \in Keys |-> NoAw]
  /\ aws = <<>>
  /\ chans = <<>>
  /\ face = {}
  /\ customGet = get
  /\ customSet = set
  /\ customDescriptor = desc
  /\ lastHook = NoHook
  /\ crashed = FALSE
  /\ pc = [p \in Procs |-> "idle"]
  /\ loc = [p \in Procs |-> IdleLoc]
  /\ ret = [p \in Procs |-> NoRet]
  /\ recvd = <<>>
  /\ initData = data
  /\ nops = 0
  /\ hinfo = <<>>
  /\ doneSets = [k \in Keys |-> {}]
  /\ mine = [p \in Procs |-> NoMine]
  /\ writes = [k \in Keys |-> NoWrites]

Init ==
  /\ \E data \in InitDatas, get \in BOOLEAN, set \in BOOLEAN,
        desc \in Descriptors : NewMicroEnv(data, get, set, desc)
  /\ quota = MaxOps

\* ------------------------------------------------------------------- Get
CanBegin(p) == ~crashed /\ pc[p] = "idle" /\ nops < quota
At(p, step) == ~crashed /\ pc[p] = step

\* what Get(key, false, caller) returns: the get-hook's answer when a hook is
\* installed, else Data.Load(key)
GetAnswerStorage(hook, data, key, caller) ==
  [val |-> IF Load(data, key) = Absent THEN Nil ELSE Load(data, key),
   found |-> Load(data, key) # Absent]
GetAnswer(hook, data, key, caller) ==
  IF hook THEN CustomGetHook(key, caller)
  ELSE [val |-> IF Load(data, key) = Absent THEN Nil ELSE Load(data, key),
        found |-> Load(data, key) # Absent]

\* Get(key, false, caller); asked is the Face entry the call was made
\* through, Absent for a call on the store itself
GetVia(p, key, caller, asked) ==
  /\ CanBegin(p)
  /\ LET r == GetAnswer(customGet, Data, key, caller)
     IN ret' = [ret EXCEPT ![p] =
                  [NoRet EXCEPT !.op = "Get", !.key = key, !.caller = caller,
                                !.val = r.val, !.found = r.found,
                                !.id = nops + 1, !.asked = asked,
                                !.ryw = IF mine[p].key = key
                                        THEN mine[p].val ELSE Absent,
                                !.rywAsked = IF mine[p].key = key
                                             THEN mine[p].asked ELSE Absent,
                                !.own = (mine[p].key = key)]]
  /\ lastHook' = IF customGet
                 THEN [fn |-> "get", key |-> key, val |-> Nil,
                       caller |-> caller, id |-> nops + 1]
                 ELSE lastHook
  /\ mine' = [mine EXCEPT ![p] = NoMine]
  /\ nops' = nops + 1
  /\ UNCHANGED <<Data, awaiters, aws, chans, face, customGet, customSet,
                 customDescriptor, crashed, pc, loc, recvd, initData, quota,
                 hinfo, doneSets, writes>>

GetDirect(p, key, caller) == GetVia(p, key, caller, Absent)

\* Get(key, true, caller), first step: awaiters.LoadOrStore(key, newAwaiter())
GetLoadOrStore(p, key, caller) ==
  /\ CanBegin(p)
  /\ LET have == LoadOrStoreLoaded(awaiters, key)
         actual == IF have THEN Load(awaiters, key) ELSE Len(aws) + 1
     IN /\ aws' = IF have THEN aws ELSE Append(aws, newAwaiter)
        /\ awaiters' = IF have THEN awaiters ELSE Store(awaiters, key, actual)
        /\ loc' = [loc EXCEPT ![p] =
                     [IdleLoc EXCEPT !.key = key, !.caller = caller,
                                     !.aw = actual, !.id = nops + 1,
                                     !.quiet = (InSet(key, p) = {}),
                                     !.after = doneSets[key]]]
  /\ pc' = [pc EXCEPT ![p] = "get_add"]
  /\ ret' = [ret EXCEPT ![p] = NoRet]
  /\ mine' = [mine EXCEPT ![p] = NoMine]
  /\ nops' = nops + 1
  /\ UNCHANGED <<Data, chans, face, customGet, customSet, customDescriptor,
                 lastHook, crashed, recvd, initData, quota, hinfo, doneSets,
                 writes>>

\* Get(key, true, caller), second step: aw.addWaiter(), and the return
GetAddWaiter(p) ==
  /\ At(p, "get_add")
  /\ LET c == Len(chans) + 1
         w == aws[loc[p].aw]
         a == addWaiter(w, c)
     IN /\ aws' = [aws EXCEPT ![loc[p].aw] = a.w]
        /\ chans' = Append(chans, a.ch)
        /\ recvd' = Append(recvd, <<>>)
        /\ hinfo' = Append(hinfo, [key |-> loc[p].key, replay |-> w.done,
                                   quiet |-> loc[p].quiet,
                                   after |-> loc[p].after,
                                   from |-> IF w.done THEN <<w.by>> ELSE <<>>,
                                   aw |-> loc[p].aw, hooks |-> <<>>])
        /\ ret' = [ret EXCEPT ![p] =
                     [NoRet EXCEPT !.op = "Get", !.next = TRUE,
                                   !.key = loc[p].key,
                                   !.caller = loc[p].caller,
                                   !.found = TRUE, !.ch = c,
                                   !.id = loc[p].id]]
  /\ pc' = [pc EXCEPT ![p] = "idle"]
  /\ loc' = [loc EXCEPT ![p] = IdleLoc]
  /\ UNCHANGED <<Data, awaiters, face, customGet, customSet, customDescriptor,
                 lastHook, crashed, initData, nops, quota, doneSets, mine,
                 writes>>

\* ------------------------------------------------------------------- Set
\* ensureFaceFor(key), under faceMu
ensureFaceForNone(f, key) == f
ensureFaceFor(f, key) == f \cup {key}

\* the step of Set that follows the store: the set-hook when one is installed
AfterStoreNoHook(hook) == "set_load"
AfterStore(hook) == IF hook THEN "set_hook" ELSE "set_load"

\* Set(key, val, caller), first step: m.Data.Store(key, val); asked is the
\* Face entry the call was made through, Absent for a call on the store
SetVia(p, key, val, caller, asked) ==
  /\ CanBegin(p)
  /\ Data' = Store(Data, key, val)
  /\ writes' = [writes EXCEPT ![key].vals = @ \cup {val},
                               ![key].last = nops + 1]
  /\ loc' = [q \in Procs |->
               IF q = p
               THEN [IdleLoc EXCEPT
                       !.key = key, !.val = val, !.caller = caller,
                       !.id = nops + 1, !.old = Load(Data, key),
                       !.owes = {h \in DOMAIN chans :
                                   hinfo[h].key = key /\ Yields(h) = <<>>},
                       !.solo = (InSet(key, p) = {}),
                       !.asked = asked]
               ELSE IF q \in InSet(key, p) THEN [loc[q] EXCEPT !.solo = FALSE]
               ELSE IF pc[q] = "get_add" /\ loc[q].key = key
                    THEN [loc[q] EXCEPT !.quiet = FALSE]
               ELSE loc[q]]
  /\ mine' = [q \in Procs |->
                IF q = p THEN [key |-> key, val |-> val, asked |-> asked]
                ELSE IF mine[q].key = key
                     THEN [mine[q] EXCEPT !.val = Absent]
                     ELSE mine[q]]
  /\ pc' = [pc EXCEPT ![p] = AfterStore(customSet)]
  /\ ret' = [ret EXCEPT ![p] = NoRet]
  /\ nops' = nops + 1
  /\ UNCHANGED <<awaiters, aws, chans, face, customGet, customSet,
                 customDescriptor, lastHook, crashed, recvd, initData, quota,
                 hinfo, doneSets>>

SetStore(p, key, val, caller) == SetVia(p, key, val, caller, Absent)

\* m.customSet(key, val, m, caller): the hook of the tests, an observer
SetHook(p) ==
  /\ At(p, "set_hook")
  /\ lastHook' = [fn |-> "set", key |-> loc[p].key, val |-> loc[p].val,
                  caller |-> loc[p].caller, id |-> loc[p].id]
  /\ loc' = [loc EXCEPT ![p].hooks = @ + 1]
  /\ pc' = [pc EXCEPT ![p] = "set_load"]
  /\ UNCHANGED <<Data, awaiters, aws, chans, face, customGet, customSet,
                 customDescriptor, crashed, ret, recvd, initData, nops,
                 quota, hinfo, doneSets, mine, writes>>

\* aw, ok := m.awaiters.Load(key)
SetLoad(p) ==
  /\ At(p, "set_load")
  /\ LET aw == Load(awaiters, loc[p].key)
     IN /\ loc' = [loc EXCEPT ![p].aw = aw]
        /\ pc' = [pc EXCEPT ![p] = IF aw # NoAw THEN "set_resolve"
                                   ELSE "set_face"]
  /\ UNCHANGED <<Data, awaiters, aws, chans, face, customGet, customSet,
                 customDescriptor, lastHook, crashed, ret, recvd, initData,
                 nops, quota, hinfo, doneSets, mine, writes>>

\* aw.(*Awaiter).resolve(val)
SetResolve(p) ==
  /\ At(p, "set_resolve")
  /\ LET w == aws[loc[p].aw]
     IN /\ ~SendBlocks(chans, w)
        /\ crashed' = SendPanics(chans, w)
        /\ aws' = [aws EXCEPT ![loc[p].aw] = resolve(w, loc[p].val, loc[p].id)]
        /\ chans' = resolveChans(chans, w, loc[p].val)
        /\ hinfo' = [h \in DOMAIN hinfo |->
                       IF h \in resolveTargets(w)
                       THEN [hinfo[h] EXCEPT
                               !.from = Append(@, loc[p].id),
                               !.hooks = Append(@, loc[p].hooks)]
                       ELSE hinfo[h]]
  /\ pc' = [pc EXCEPT ![p] = "set_delete"]
  /\ UNCHANGED <<Data, awaiters, face, customGet, customSet, customDescriptor,
                 lastHook, loc, ret, recvd, initData, nops, quota, doneSets,
                 mine, writes>>

\* m.awaiters.Delete(key)
SetDelete(p) ==
  /\ At(p, "set_delete")
  /\ awaiters' = Delete(awaiters, loc[p].key)
  /\ pc' = [pc EXCEPT ![p] = "set_face"]
  /\ UNCHANGED <<Data, aws, chans, face, customGet, customSet,
                 customDescriptor, lastHook, crashed, loc, ret, recvd,
                 initData, nops, quota, hinfo, doneSets, mine, writes>>

\* m.ensureFaceFor(key), and the return
SetEnsureFace(p) ==
  /\ At(p, "set_face")
  /\ face' = ensureFaceFor(face, loc[p].key)
  /\ ret' = [ret EXCEPT ![p] =
               [NoRet EXCEPT !.op = "Set", !.key = loc[p].key,
                             !.val = loc[p].val, !.caller = loc[p].caller,
                             !.id = loc[p].id, !.old = loc[p].old,
                             !.owes = loc[p].owes, !.solo = loc[p].solo,
                             !.asked = loc[p].asked,
                             !.hooks = loc[p].hooks]]
  /\ doneSets' = [doneSets EXCEPT ![loc[p].key] = @ \cup {loc[p].id}]
  /\ pc' = [pc EXCEPT ![p] = "idle"]
  /\ loc' = [loc EXCEPT ![p] = IdleLoc]
  /\ UNCHANGED <<Data, awaiters, aws, chans, customGet, customSet,
                 customDescriptor, lastHook, crashed, recvd, initData, nops,
                 quota, hinfo, mine, writes>>

\* ------------------------------------------------------------------ Call
\* reflect's Call panics unless each non-nil argument is assignable to the
\* parameter it is passed for (a nil argument becomes reflect.Zero)
Assignable(arg, ptype) ==
  arg = Nil \/ ptype = "interface" \/ TypeOfArg(arg) = ptype

\* Call(key, payload, caller): [ok, invoked, panics, results]
CallOutcome(valRaw, payload, caller) ==
  LET no == [ok |-> FALSE, invoked |-> FALSE, panics |-> FALSE,
             results |-> <<>>]
  IN IF valRaw = Absent THEN no
     ELSE IF KindOf(valRaw) # "func" THEN no
     ELSE IF NumIn(valRaw) # 3 THEN no
     ELSE LET args == <<payload, "m", caller>>
              typ == ParamTypes(valRaw)
          IN IF \E i \in 1..3 : ~Assignable(args[i], typ[i])
             THEN [no EXCEPT !.panics = TRUE]
             ELSE [ok |-> TRUE, invoked |-> TRUE, panics |-> FALSE,
                   results |-> FnResults(valRaw, payload)]

CallAct(p, key, payload, caller) ==
  /\ CanBegin(p)
  /\ LET o == CallOutcome(Load(Data, key), payload, caller)
     IN /\ ret' = [ret EXCEPT ![p] =
                     [NoRet EXCEPT !.op = IF o.panics THEN "CallPanic"
                                          ELSE "Call",
                                   !.key = key, !.caller = caller,
                                   !.val = payload, !.found = o.ok,
                                   !.results = o.results,
                                   !.invoked = o.invoked,
                                   !.id = nops + 1]]
        /\ crashed' = o.panics
  /\ mine' = [mine EXCEPT ![p] = NoMine]
  /\ nops' = nops + 1
  /\ UNCHANGED <<Data, awaiters, aws, chans, face, customGet, customSet,
                 customDescriptor, lastHook, pc, loc, recvd, initData, quota,
                 hinfo, doneSets,
                 writes>>

\* ------------------------------------------------------------------ Face
\* Face(), under faceMu: ensureFaceForUnlocked for every key Data.Range
\* visits; the table it leaves (the result is a copy of it)
FaceTableStale(f, dataKeys) == f
FaceTable(f, dataKeys) == f \cup dataKeys

FaceAct(p) ==
  /\ CanBegin(p)
  /\ face' = FaceTable(face, DataKeys)
  /\ ret' = [ret EXCEPT ![p] = [NoRet EXCEPT !.op = "Face", !.keys = face',
                                             !.id = nops + 1]]
  /\ mine' = [mine EXCEPT ![p] = NoMine]
  /\ nops' = nops + 1
  /\ UNCHANGED <<Data, awaiters, aws, chans, customGet, customSet,
                 customDescriptor, lastHook, crashed, pc, loc, recvd,
                 initData, quota, hinfo, doneSets,
                 writes>>

\* the accessor pair ensureFaceFor makes for a key: closures over k := key
\* that call m.Get(k, false, caller) and m.Set(k, val, caller)
AccessorKeyOther(key) == CHOOSE k \in Keys : k # key
AccessorKey(key) == key

\* Face()[key].Get(caller)
FaceGet(p, key, caller) ==
  /\ key \in face
  /\ GetVia(p, AccessorKey(key), caller, key)

\* Face()[key].Set(val, caller), first step
FaceSet(p, key, val, caller) ==
  /\ key \in face
  /\ SetVia(p, AccessorKey(key), val, caller, key)

\* ------------------------------------------------------------ Descriptor
\* the orders in which Data.Range may visit the keys
RangeOrders(S) ==
  {s \in [1..Cardinality(S) -> S] :
     \A i, j \in 1..Cardinality(S) : i # j => s[i] # s[j]}

\* Descriptor(): the explicit descriptor, or one child per key of Data
DescriptorChildrenSynth(desc, data, order) ==
  [i \in 1..Len(order) |->
     [key |-> order[i], type |-> simpleType(data[order[i]])]]
DescriptorChildren(desc, data, order) ==
  IF desc.given THEN desc.children
  ELSE [i \in 1..Len(order) |->
          [key |-> order[i], type |-> simpleType(data[order[i]])]]

\* Descriptor() panics when simpleType does
DescriptorPanics(children) ==
  \E i \in 1..Len(children) : children[i].type = Fault

DescriptorAct(p) ==
  /\ CanBegin(p)
  /\ \E order \in RangeOrders(DataKeys) :
       LET children == DescriptorChildren(customDescriptor, Data, order)
       IN /\ ret' = [ret EXCEPT ![p] =
                       IF DescriptorPanics(children)
                       THEN [NoRet EXCEPT !.op = "DescriptorPanic",
                                          !.id = nops + 1]
                       ELSE [NoRet EXCEPT !.op = "Descriptor",
                                          !.desc = children,
                                          !.id = nops + 1]]
          /\ crashed' = DescriptorPanics(children)
  /\ mine' = [mine EXCEPT ![p] = NoMine]
  /\ nops' = nops + 1
  /\ UNCHANGED <<Data, awaiters, aws, chans, face, customGet, customSet,
                 customDescriptor, lastHook, pc, loc, recvd,
                 initData, quota, hinfo, doneSets, writes>>

\* --------------------------------------------------------------- receive
\* v := <-ch on a handle Get returned, by whoever holds it
Receive(h) ==
  /\ ~crashed
  /\ chans[h].buf # <<>>
  /\ recvd' = [recvd EXCEPT ![h] = Append(@, Head(chans[h].buf))]
  /\ chans' = [chans EXCEPT ![h].buf = Tail(@)]
  /\ UNCHANGED <<Data, awaiters, aws, face, customGet, customSet,
                 customDescriptor, lastHook, crashed, pc, loc, ret, initData,
                 nops, quota, hinfo, doneSets, mine,
                 writes>>

\* ------------------------------------------------------------ the clients
SetVals == {"n2", "f3s"}             \* what the clients of Spec store
Payloads == {Nil, "ints"}            \* what they pass to Call
Main == 1                            \* the goroutine of Spec

\* Spec: every operation of the store, called by one goroutine, one call
\* after the other, on every configuration of Init
Next ==
  \/ \E k \in Keys, c \in Callers : GetDirect(Main, k, c)
  \/ \E k \in Keys, c \in Callers : GetLoadOrStore(Main, k, c)
  \/ GetAddWaiter(Main)
  \/ \E k \in Keys, v \in SetVals, c \in Callers : SetStore(Main, k, v, c)
  \/ SetHook(Main)
  \/ SetLoad(Main)
  \/ SetResolve(Main)
  \/ SetDelete(Main)
  \/ SetEnsureFace(Main)
  \/ \E k \in Keys, v \in Payloads, c \in Callers : CallAct(Main, k, v, c)
  \/ FaceAct(Main)
  \/ DescriptorAct(Main)
  \/ \E h \in DOMAIN chans : Receive(h)

Spec == Init /\ [][Next]_vars

\* SpecFace: one goroutine that works through the accessors of Face(), on
\* every configuration of Init, with await-Gets for its Sets to resolve
NextFace ==
  \/ FaceAct(Main)
  \/ \E k \in Keys, c \in Callers : FaceGet(Main, k, c)
  \/ \E k \in Keys, v \in SetVals, c \in Callers : FaceSet(Main, k, v, c)
  \/ SetHook(Main)
  \/ SetLoad(Main)
  \/ SetResolve(Main)
  \/ SetDelete(Main)
  \/ SetEnsureFace(Main)
  \/ \E k \in Keys, c \in Callers : GetLoadOrStore(Main, k, c)
  \/ GetAddWaiter(Main)
  \/ \E h \in DOMAIN chans : Receive(h)

SpecFace == Init /\ [][NextFace]_vars

\* SpecRace: the await-Gets and Sets of two goroutines, overlapping in
\* every way, on one key of an empty store without hooks
RaceVals == {"n1", "n2"}
Racers == {1, 2}

InitRace ==
  /\ NewMicroEnv([k \in Keys |-> Absent], FALSE, FALSE, NoDescriptor)
  /\ quota = MaxRaceOps

NextRace ==
  \/ \E p \in Racers : GetLoadOrStore(p, "a", Owner)
  \/ \E p \in Racers : GetAddWaiter(p)
  \/ \E p \in Racers, v \in RaceVals : SetStore(p, "a", v, Owner)
  \/ \E p \in Racers : SetLoad(p)
  \/ \E p \in Racers : SetResolve(p)
  \/ \E p \in Racers : SetDelete(p)
  \/ \E p \in Racers : SetEnsureFace(p)

SpecRace == InitRace /\ [][NextRace]_vars

\* SpecConc: NumProcs goroutines that also read the key and receive from
\* their handles
InitConc ==
  /\ NewMicroEnv([k \in Keys |-> Absent], FALSE, FALSE, NoDescriptor)
  /\ quota = MaxConcOps

NextConc ==
  \/ \E p \in Procs : GetLoadOrStore(p, "a", Owner)
  \/ \E p \in Procs : GetAddWaiter(p)
  \/ \E p \in Procs, v \in RaceVals : SetStore(p, "a", v, Owner)
  \/ \E p \in Procs : SetLoad(p)
  \/ \E p \in Procs : SetResolve(p)
  \/ \E p \in Procs : SetDelete(p)
  \/ \E p \in Procs : SetEnsureFace(p)
  \/ \E p \in Procs : GetDirect(p, "a", Owner)
  \/ \E h \in DOMAIN chans : Receive(h)

SpecConc == InitConc /\ [][NextConc]_vars

\* SpecLive: two goroutines making every kind of call on one key, with a
\* set-hook installed; a goroutine inside a handler is scheduled again
\* (weak fairness of each step of a handler), while nobody is obliged to
\* receive from a handle or to make another call
LiveVals == {"f3"}

InitLive ==
  /\ NewMicroEnv([k \in Keys |-> Absent], FALSE, TRUE, NoDescriptor)
  /\ quota = MaxLiveOps

NextLive ==
  \/ \E p \in Racers : GetLoadOrStore(p, "a", Owner)
  \/ \E p \in Racers : GetAddWaiter(p)
  \/ \E p \in Racers, v \in LiveVals : SetStore(p, "a", v, Owner)
  \/ \E p \in Racers : SetHook(p)
  \/ \E p \in Racers : SetLoad(p)
  \/ \E p \in Racers : SetResolve(p)
  \/ \E p \in Racers : SetDelete(p)
  \/ \E p \in Racers : SetEnsureFace(p)
  \/ \E p \in Racers : GetDirect(p, "a", Owner)
  \/ \E p \in Racers : CallAct(p, "a", Nil, Owner)
  \/ \E p \in Racers : FaceAct(p)
  \/ \E p \in Racers : DescriptorAct(p)
  \/ \E h \in DOMAIN chans : Receive(h)

Scheduled(p) ==
  /\ WF_vars(GetAddWaiter(p))
  /\ WF_vars(SetHook(p))
  /\ WF_vars(SetLoad(p))
  /\ WF_vars(SetResolve(p))
  /\ WF_vars(SetDelete(p))
  /\ WF_vars(SetEnsureFace(p))

SpecLive == InitLive /\ [][NextLive]_vars /\ \A p \in Racers : Scheduled(p)

\* ------------------------------------------- the Awaiter of src/microenv.go
\* In src/microenv.go an Awaiter is {once, ch}: one channel of capacity 1,
\* made by newAwaiter and returned by Chan() to every Get of the key. There
\* aws holds [done, val, ch, by] (done: once has fired), chans holds one
\* entry per Awaiter, and hinfo and recvd hold one entry per handle returned
\* by a Get: the channel it refers to and what was received through it.

\* newAwaiter(), with its channel c
newAwaiterOnce(c) == [done |-> FALSE, val |-> Nil, ch |-> c, by |-> 0]

\* w.Chan()
Chan(w) == w.ch

\* w.resolve(val): once.Do(func() { w.ch <- val; close(w.ch) })
resolveOnce(w, val, id) ==
  IF w.done THEN w ELSE [w EXCEPT !.done = TRUE, !.val = val, !.by = id]

\* Get(key, true, caller): awaiters.LoadOrStore(key, newAwaiter()), Chan()
GetChan(p, key, caller) ==
  /\ CanBegin(p)
  /\ LET have == LoadOrStoreLoaded(awaiters, key)
         actual == IF have THEN Load(awaiters, key) ELSE Len(aws) + 1
         c == IF have THEN Chan(aws[actual]) ELSE Len(chans) + 1
     IN /\ aws' = IF have THEN aws ELSE Append(aws, newAwaiterOnce(c))
        /\ chans' = IF have THEN chans
                    ELSE Append(chans, [buf |-> <<>>, closed |-> FALSE])
        /\ awaiters' = IF have THEN awaiters ELSE Store(awaiters, key, actual)
        /\ hinfo' = Append(hinfo, [key |-> key, aw |-> actual, ch |-> c,
                                   id |-> nops + 1])
        /\ recvd' = Append(recvd, <<>>)
        /\ ret' = [ret EXCEPT ![p] =
                     [NoRet EXCEPT !.op = "Get", !.next = TRUE, !.key = key,
                                   !.caller = caller, !.found = TRUE,
                                   !.ch = Len(hinfo) + 1, !.id = nops + 1]]
  /\ mine' = [mine EXCEPT ![p] = NoMine]
  /\ nops' = nops + 1
  /\ UNCHANGED <<Data, face, customGet, customSet, customDescriptor,
                 lastHook, crashed, pc, loc, initData, quota, doneSets,
                 writes>>

\* Set(key, val, caller), first step: m.data.Store(key, val)
SetStoreOnce(p, key, val, caller) ==
  /\ CanBegin(p)
  /\ Data' = Store(Data, key, val)
  /\ writes' = [writes EXCEPT ![key].vals = @ \cup {val},
                               ![key].last = nops + 1]
  /\ loc' = [loc EXCEPT ![p] =
               [IdleLoc EXCEPT !.key = key, !.val = val, !.caller = caller,
                               !.id = nops + 1, !.old = Load(Data, key)]]
  /\ mine' = [q \in Procs |->
                IF q = p THEN [key |-> key, val |-> val, asked |-> Absent]
                ELSE IF mine[q].key = key
                     THEN [mine[q] EXCEPT !.val = Absent]
                     ELSE mine[q]]
  /\ pc' = [pc EXCEPT ![p] = AfterStore(customSet)]
  /\ ret' = [ret EXCEPT ![p] = NoRet]
  /\ nops' = nops + 1
  /\ UNCHANGED <<awaiters, aws, chans, face, customGet, customSet,
                 customDescriptor, lastHook, crashed, recvd, initData, quota,
                 hinfo, doneSets>>

\* aw.(*Awaiter).resolve(val)
SetResolveOnce(p) ==
  /\ At(p, "set_resolve")
  /\ LET w == aws[loc[p].aw]
         c == Chan(w)
     IN /\ w.done \/ Len(chans[c].buf) < ChanCap
        /\ crashed' = (~w.done /\ chans[c].closed)
        /\ aws' = [aws EXCEPT ![loc[p].aw] =
                     resolveOnce(w, loc[p].val, loc[p].id)]
        /\ chans' = IF w.done THEN chans
                    ELSE [chans EXCEPT ![c] =
                            [buf |-> Append(@.buf, loc[p].val),
                             closed |-> TRUE]]
  /\ pc' = [pc EXCEPT ![p] = "set_delete"]
  /\ UNCHANGED <<Data, awaiters, face, customGet, customSet, customDescriptor,
                 lastHook, loc, ret, recvd, initData, nops, quota, hinfo,
                 doneSets, mine, writes>>

\* v := <-ch through handle h, once: the buffered value, or the zero value
\* (nil) of a closed and empty channel; it waits on an open, empty channel
ReceiveHandle(h) ==
  /\ ~crashed
  /\ recvd[h] = <<>>
  /\ LET c == hinfo[h].ch
     IN /\ chans[c].buf # <<>> \/ chans[c].closed
        /\ recvd' = [recvd EXCEPT ![h] =
                       IF chans[c].buf # <<>> THEN <<Head(chans[c].buf)>>
                       ELSE <<Nil>>]
        /\ chans' = IF chans[c].buf # <<>>
                    THEN [chans EXCEPT ![c].buf = Tail(@)]
                    ELSE chans
  /\ UNCHANGED <<Data, awaiters, aws, face, customGet, customSet,
                 customDescriptor, lastHook, crashed, pc, loc, ret, initData,
                 nops, quota, hinfo, doneSets, mine, writes>>

\* SpecOnce: the await-Gets and Sets of two goroutines on one key of the
\* store of src/microenv.go, and the receives from the handles
InitOnce ==
  /\ NewMicroEnv([k \in Keys |-> Absent], FALSE, FALSE, NoDescriptor)
  /\ quota = MaxOnceOps

NextOnce ==
  \/ \E p \in Racers : GetChan(p, "a", Owner)
  \/ \E p \in Racers, v \in RaceVals : SetStoreOnce(p, "a", v, Owner)
  \/ \E p \in Racers : SetLoad(p)
  \/ \E p \in Racers : SetResolveOnce(p)
  \/ \E p \in Racers : SetDelete(p)
  \/ \E p \in Racers : SetEnsureFace(p)
  \/ \E h \in DOMAIN hinfo : ReceiveHandle(h)

SpecOnce == InitOnce /\ [][NextOnce]_vars

\* SpecTag: one goroutine stores values of every kind simpleType
\* distinguishes and asks for the Descriptor
TagVals ==
  {Nil} \cup Numbers \cup Strings \cup Slices \cup {"f3"} \cup Bools
    \cup Floats \cup Arrays \cup Maps \cup Structs \cup Chans \cup Pointers

InitTag ==
  /\ NewMicroEnv([k \in Keys |-> Absent], FALSE, FALSE, NoDescriptor)
  /\ quota = MaxTagOps

NextTag ==
  \/ \E k \in Keys, v \in TagVals : SetStore(Main, k, v, Owner)
  \/ SetLoad(Main)
  \/ SetEnsureFace(Main)
  \/ DescriptorAct(Main)

SpecTag == InitTag /\ [][NextTag]_vars

\* ================================================================= claims
\* result of the last call of goroutine p on an undeclared / private key
OnUndeclared(p) == ret[p].op # "none" /\ ret[p].key \in Keys \ Declared
ByStranger(p) ==
  ret[p].op # "none" /\ ret[p].key \in PrivateKeys /\ ret[p].caller # Owner

C2_PrivacyGate ==
  \A p \in Procs :
    LET r == ret[p] IN
    /\ (ByStranger(p) =>
          /\ (r.op \in {"Get", "Call"} => ~r.found)
          /\ r.op # "CallPanic"
          /\ (r.op = "Set" => Data[r.key] = r.old))
    /\ (r.op = "Get" /\ ~r.next /\ ~customGet /\ r.key \in PrivateKeys
          /\ r.caller = Owner /\ Data[r.key] # Absent =>
          r.found /\ r.val = Data[r.key])

\* C3: with no get-hook, a Set(k, v) that has returned, followed by the same
\* goroutine's Get(k, false) with no other Set writing k in between, returns
\* (v, found = true). (ret.ryw is the goroutine's own preceding Set value,
\* kept only while no other goroutine has stored k since.)
C3_ReadYourWrite ==
  \A p \in Procs :
    ret[p].op = "Get" /\ ~ret[p].next /\ ~customGet /\ ret[p].ryw # Absent =>
      ret[p].found /\ ret[p].val = ret[p].ryw

\* a Get that read back the goroutine's own "n2" over an earlier "n1"
C3_Witness ==
  \E p \in Procs :
    /\ ret[p].op = "Get" /\ ~ret[p].next /\ ~customGet
    /\ ret[p].ryw = "n2" /\ ret[p].val = "n2" /\ ret[p].found
    /\ Cardinality(doneSets[ret[p].key]) >= 2

\* the handles of owes that their Get obtained while no Set on the key was
\* in progress
QuietOwed(r) == {h \in r.owes : hinfo[h].quiet}

\* C4: the handles obtained by Get(k, true) before a single Set(k, v) (their
\* Gets overlapped no Set on k, and the Set overlapped no other Set on k)
\* each yield exactly v, exactly once, after that Set: one value was sent,
\* by that Set, and it is v.
C4_FanOut ==
  \A p \in Procs :
    ret[p].op = "Set" /\ ret[p].solo =>
      \A h \in QuietOwed(ret[p]) :
        Yields(h) = <<ret[p].val>> /\ hinfo[h].from = <<ret[p].id>>

\* a Set that has returned and has delivered to two waiting handles
C4_Witness ==
  \E p \in Procs :
    /\ ret[p].op = "Set" /\ ret[p].solo
    /\ Cardinality(QuietOwed(ret[p])) >= 2
    /\ \A h \in QuietOwed(ret[p]) : Yields(h) = <<ret[p].val>>

\* C5 (as claimed): a handle obtained strictly after a Set(k, v) has returned
\* never yields that Set's value; it is pending until the next Set on k and
\* holds a value once that Set has returned, that Set's own value when it
\* overlapped no other Set.
C5_NoReplayThenNext ==
  /\ \A h \in DOMAIN hinfo :
       \A i \in 1..Len(hinfo[h].from) : hinfo[h].from[i] \notin hinfo[h].after
  /\ \A p \in Procs :
       ret[p].op = "Set" =>
         \A h \in ret[p].owes :
           hinfo[h].after # {} =>
             /\ Yields(h) # <<>>
             /\ (ret[p].solo => Yields(h) = <<ret[p].val>>)

\* C6 (as claimed): a handle whose Get returned before a Set on its key
\* began holds a value by the time that Set returns.
C6_AwaitAnswered ==
  \A p \in Procs :
    ret[p].op = "Set" => \A h \in ret[p].owes : Yields(h) # <<>>

\* C7 (as claimed): no Get registers on an Awaiter that a Set has already
\* resolved: no handle is made by addWaiter's late-join path.
C7_NoLateJoin == \A h \in DOMAIN hinfo : ~hinfo[h].replay

\* C8 (as claimed): Call returns ok = true exactly when the key holds a
\* callable of three parameters, and then returns the callable's results;
\* otherwise it returns ok = false without invoking anything.
C8_CallContract ==
  \A p \in Procs :
    ret[p].op \in {"Call", "CallPanic"} =>
      LET r == ret[p]
          v == Data[r.key]
          callable == v # Absent /\ KindOf(v) = "func" /\ NumIn(v) = 3
      IN /\ (r.op = "Call" /\ r.found) = callable
         /\ (callable => r.results = FnResults(v, r.val))
         /\ (~callable => ~r.invoked /\ r.results = <<>>)

\* C9 (as claimed): the Face table holds exactly the keys declared at
\* construction: Set never adds a key, and Face() returns the declared keys.
C9_FaceFixed ==
  /\ face \subseteq Declared
  /\ \A p \in Procs : ret[p].op = "Face" => ret[p].keys = Declared

\* the keys Descriptor() lists in the current state, whatever the order
\* Data.Range visits them in
DescriptorKeySets ==
  {DescriptorKeys(DescriptorChildren(customDescriptor, Data, order)) :
     order \in RangeOrders(DataKeys)}

\* C10: without an explicit descriptor, the keys of Descriptor().children
\* are the keys of Face(), in every state: for what either call would
\* return now, and for what the last call returned.
C10_DescriptorFaceKeys ==
  ~customDescriptor.given =>
    /\ DescriptorKeySets = {FaceTable(face, DataKeys)}
    /\ \A p \in Procs :
         /\ (ret[p].op = "Face" => DescriptorKeySets = {ret[p].keys})
         /\ (ret[p].op = "Descriptor" =>
               DescriptorKeys(ret[p].desc) = FaceTable(face, DataKeys))

\* Face() returned a key that a Set added after construction
C10_Witness ==
  \E p \in Procs :
    /\ ~customDescriptor.given
    /\ ret[p].op = "Face"
    /\ ret[p].keys # InitKeys
    /\ DescriptorKeySets = {ret[p].keys}

\* C11 (as claimed): without an explicit descriptor, Descriptor() returns
\* the key set of the initial data, each key with the tag of its initial
\* value, whatever Sets have happened since.
C11_DescriptorImmutable ==
  ~customDescriptor.given =>
    \A p \in Procs :
      ret[p].op = "Descriptor" =>
        /\ DescriptorKeys(ret[p].desc) = InitKeys
        /\ \A i \in 1..Len(ret[p].desc) :
             /\ ret[p].desc[i].key \in InitKeys
             /\ ret[p].desc[i].type = simpleType(initData[ret[p].desc[i].key])

\* C12: with an explicit descriptor supplied at construction, Descriptor()
\* returns exactly that descriptor, in every state (whatever the data, and
\* whatever order Data.Range would visit the keys in) and in every call made.
C12_ExplicitVerbatim ==
  customDescriptor.given =>
    /\ customDescriptor \in Descriptors
    /\ \A order \in RangeOrders(DataKeys) :
         DescriptorChildren(customDescriptor, Data, order)
           = customDescriptor.children
    /\ \A p \in Procs :
         ret[p].op = "Descriptor" => ret[p].desc = customDescriptor.children

\* Descriptor() returned the explicit descriptor after a Set changed the
\* data, whose keys and tags differ from the descriptor's
C12_Witness ==
  \E p \in Procs :
    /\ customDescriptor.given
    /\ ret[p].op = "Descriptor"
    /\ ret[p].desc = customDescriptor.children
    /\ Data # initData
    /\ \E order \in RangeOrders(DataKeys) :
         DescriptorChildrenSynth(customDescriptor, Data, order) # ret[p].desc

\* C13: with a get-hook installed, Get(k, false, caller) returns exactly the
\* hook's (value, found) for (k, caller), whatever the store holds, and the
\* hook was called for it with (k, caller); Get(k, true, caller) does not
\* call the get-hook and returns a handle with found = true.
C13_GetHookDispatch ==
  customGet =>
    \A p \in Procs :
      /\ (ret[p].op = "Get" /\ ~ret[p].next =>
            /\ ret[p].val = CustomGetHook(ret[p].key, ret[p].caller).val
            /\ ret[p].found = CustomGetHook(ret[p].key, ret[p].caller).found
            /\ lastHook = [fn |-> "get", key |-> ret[p].key, val |-> Nil,
                           caller |-> ret[p].caller, id |-> ret[p].id])
      /\ (ret[p].op = "Get" /\ ret[p].next =>
            /\ ret[p].found /\ ret[p].val = Nil
            /\ ret[p].ch \in DOMAIN chans
            /\ lastHook.id # ret[p].id)
      /\ (pc[p] = "get_add" => lastHook.id # loc[p].id)

\* a Get(k, false) that returned the hook's answer for a key that holds no
\* value
C13_Witness ==
  \E p \in Procs :
    /\ customGet
    /\ ret[p].op = "Get" /\ ~ret[p].next
    /\ Data[ret[p].key] = Absent
    /\ ret[p].found /\ ret[p].val = "CUSTOM-b"

\* C14: whenever no Set on key k is in progress, the awaiter table holds no
\* resolved Awaiter for k; and when a Set on k has returned and no call has
\* begun since that Set began, the table has no entry for k.
C14_AwaiterCleanup ==
  /\ \A k \in Keys :
       (\A p \in Procs : ~(pc[p] \in SetPcs /\ loc[p].key = k)) =>
         awaiters[k] = NoAw \/ ~aws[awaiters[k]].done
  /\ \A p \in Procs :
       ret[p].op = "Set" /\ nops = ret[p].id =>
         awaiters[ret[p].key] = NoAw

\* a Set that found an awaiter with a waiting handle has returned, and
\* nothing has been called since
C14_Witness ==
  \E p \in Procs :
    /\ ret[p].op = "Set" /\ nops = ret[p].id
    /\ ret[p].owes # {}
    /\ Len(aws) >= 1 /\ aws[1].done
    /\ \A q \in Procs : pc[q] = "idle"

\* C15: a call through Face()[k] acts on key k: Face()[k].Get(c) returns
\* what Get(k, false, c) returns; Face()[k].Set(v, c) has stored v under k,
\* called the set-hook once with (k, v, c), resolved the pending handles of
\* k with v and removed the awaiter; and with no get-hook, Face()[k].Set(v, c)
\* followed by Face()[k].Get(c) returns (v, true).
C15_FaceIsSugar ==
  \A p \in Procs :
    /\ (loc[p].asked # Absent => loc[p].key = loc[p].asked)
    /\ (ret[p].asked # Absent =>
          LET r == ret[p] IN
          /\ r.key = r.asked
          /\ (r.op = "Get" =>
                /\ [val |-> r.val, found |-> r.found]
                     = GetAnswer(customGet, Data, r.asked, r.caller)
                /\ (~customGet /\ r.ryw # Absent =>
                      r.found /\ r.val = r.ryw))
          /\ (r.op = "Set" =>
                /\ Data[r.asked] = r.val
                /\ r.hooks = (IF customSet THEN 1 ELSE 0)
                /\ (customSet =>
                      lastHook = [fn |-> "set", key |-> r.asked,
                                  val |-> r.val, caller |-> r.caller,
                                  id |-> r.id])
                /\ awaiters[r.asked] = NoAw
                /\ \A h \in r.owes : Yields(h) = <<r.val>>
                /\ r.asked \in face))

\* Face()[k].Get read back the value Face()[k].Set stored over another one
C15_Witness ==
  \E p \in Procs :
    /\ ret[p].op = "Get" /\ ret[p].asked # Absent
    /\ ret[p].rywAsked = ret[p].asked
    /\ ret[p].ryw = "n2" /\ ret[p].val = "n2" /\ ret[p].found
    /\ initData[ret[p].asked] = "n1"

\* C16 (as claimed): a Call on a stored callable of three parameters whose
\* parameter types do not accept the payload, the store or the caller
\* returns ok = false, and does not panic.
C16_CallFailsClosed ==
  \A p \in Procs :
    ret[p].op \in {"Call", "CallPanic"} =>
      LET v == Data[ret[p].key]
          args == <<ret[p].val, "m", ret[p].caller>>
      IN v # Absent /\ KindOf(v) = "func" /\ NumIn(v) = 3
           /\ (\E i \in 1..3 : ~Assignable(args[i], ParamTypes(v)[i])) =>
           ret[p].op = "Call" /\ ~ret[p].found /\ ~crashed

\* C17: resolving an Awaiter never waits for a registrant (the send to each
\* registered channel can proceed), and every call that has begun returns,
\* whether or not anybody receives from the handles.
C17_OnlyReceiveSuspends ==
  /\ [](\A p \in Procs :
          pc[p] = "set_resolve" => ~SendBlocks(chans, aws[loc[p].aw]))
  /\ \A p \in Procs : (pc[p] # "idle") ~> (pc[p] = "idle")

\* a Set has returned after resolving two handles nobody has received from
C17_Witness ==
  \E p \in Procs :
    /\ ret[p].op = "Set"
    /\ Cardinality(ret[p].owes) >= 2
    /\ \A h \in ret[p].owes : recvd[h] = <<>> /\ chans[h].buf # <<>>

\* C18: with no get-hook, when goroutines run Set(k, i) then Get(k, false)
\* concurrently, the Get a goroutine makes after its own Set on k has
\* returned reports found = true and returns a value that was passed to some
\* Set on k, whatever the other goroutines do. (ret.own: the goroutine's
\* call before this Get was a Set on k.)
C18_NoLostKeys ==
  \A p \in Procs :
    /\ ret[p].op = "Get" /\ ~ret[p].next /\ ~customGet
    /\ ret[p].own
    => ret[p].found /\ ret[p].val \in writes[ret[p].key].vals

\* a goroutine's Get found the value another goroutine stored over its own
C18_Witness ==
  \E p \in Procs :
    /\ ret[p].op = "Get" /\ ~ret[p].next
    /\ ret[p].own
    /\ ret[p].found /\ ret[p].ryw = Absent
    /\ Cardinality(writes[ret[p].key].vals) >= 2

\* C19: within a Set(k, v) the store is written first, then the set-hook is
\* called, once, with (k, v, caller), and only then the awaiter is resolved:
\* while the Set is past its store, and when its hook is called, the store
\* holds v or a later Set's value; the hook has been called exactly once
\* before the awaiter is looked up and when the Set returns; and every value
\* a handle holds was sent after the sending Set's hook returned, with the
\* store holding that value or a later Set's.
C19_SetOrdering ==
  /\ \A p \in Procs :
       pc[p] \in SetPcs =>
         /\ writes[loc[p].key].last >= loc[p].id
         /\ Data[loc[p].key] = loc[p].val
              \/ writes[loc[p].key].last > loc[p].id
         /\ loc[p].hooks = (IF customSet /\ pc[p] # "set_hook" THEN 1 ELSE 0)
  /\ lastHook.fn = "set" =>
       /\ writes[lastHook.key].last >= lastHook.id
       /\ Data[lastHook.key] = lastHook.val
            \/ writes[lastHook.key].last > lastHook.id
  /\ \A p \in Procs :
       ret[p].op = "Set" =>
         /\ ret[p].hooks = (IF customSet THEN 1 ELSE 0)
         /\ (customSet =>
               lastHook = [fn |-> "set", key |-> ret[p].key,
                           val |-> ret[p].val, caller |-> ret[p].caller,
                           id |-> ret[p].id])
  /\ \A h \in DOMAIN hinfo :
       /\ \A i \in 1..Len(hinfo[h].hooks) :
            hinfo[h].hooks[i] = (IF customSet THEN 1 ELSE 0)
       /\ \A i \in 1..Len(hinfo[h].from) :
            \/ Data[hinfo[h].key] = Yields(h)[i]
            \/ writes[hinfo[h].key].last > hinfo[h].from[i]

\* a Set with a set-hook has returned after delivering to a waiting handle
C19_Witness ==
  \E p \in Procs :
    /\ customSet
    /\ ret[p].op = "Set" /\ ret[p].owes # {}
    /\ \A h \in ret[p].owes :
         Yields(h) = <<ret[p].val>> /\ hinfo[h].hooks = <<1>>

\* C20: of the resolve calls made on one Awaiter exactly one has effect:
\* once an Awaiter is resolved no step changes it (its value stays the one of
\* the call that resolved it), every handle registered on it holds exactly
\* that value, sent by that call, and no handle is ever sent to twice.
C20_ResolveOnce ==
  /\ [](\A h \in DOMAIN hinfo :
          /\ Len(hinfo[h].from) <= 1
          /\ Len(Yields(h)) <= 1
          /\ aws[hinfo[h].aw].done =>
               /\ Yields(h) = <<aws[hinfo[h].aw].val>>
               /\ hinfo[h].from = <<aws[hinfo[h].aw].by>>)
  /\ [](\A p \in Procs :
          /\ (pc[p] \in {"set_delete", "set_face"} /\ loc[p].aw # NoAw
                /\ aws[loc[p].aw].by = loc[p].id =>
                aws[loc[p].aw].val = loc[p].val)
          /\ (pc[p] \in {"set_delete", "set_face"} /\ loc[p].aw # NoAw =>
                aws[loc[p].aw].done))
  /\ [][\A i \in DOMAIN aws : aws[i].done => aws'[i] = aws[i]]_vars

\* a second Set, with another value, has called resolve on an Awaiter that
\* an earlier Set had resolved, and the handle holds the first value
C20_Witness ==
  \E p \in Procs :
    /\ pc[p] = "set_delete"
    /\ aws[loc[p].aw].done
    /\ aws[loc[p].aw].by # loc[p].id
    /\ aws[loc[p].aw].val # loc[p].val
    /\ \E h \in DOMAIN hinfo :
         hinfo[h].aw = loc[p].aw /\ Yields(h) = <<aws[loc[p].aw].val>>

\* C21: a handle made by registering on an Awaiter that was already resolved
\* holds the resolved value, the value of the one resolve call that had
\* effect, from the moment it is returned (its channel is filled and closed),
\* and it is not among the Awaiter's pending registrants.
C21_LateJoin ==
  \A h \in DOMAIN hinfo :
    hinfo[h].replay =>
      LET w == aws[hinfo[h].aw] IN
      /\ w.done
      /\ Yields(h) = <<w.val>>
      /\ chans[h].closed
      /\ hinfo[h].from = <<w.by>>
      /\ \A i \in 1..Len(w.chs) : w.chs[i] # h

\* a Get registered on an Awaiter a concurrent Set had resolved with "n2"
C21_Witness ==
  \E h \in DOMAIN hinfo :
    /\ hinfo[h].replay
    /\ Yields(h) = <<"n2">>
    /\ aws[hinfo[h].aw].val = "n2"

\* C22: the awaiter table holds at most one Awaiter per key (each entry is
\* one Awaiter made by a Get, and no Awaiter is the entry of two keys); Gets
\* of a key that run while no Set on the key is in progress use the key's one
\* table entry, so the handles they leave pending are all registered on that
\* same Awaiter; and a single following Set(k, v) resolves every one of them
\* with v.
C22_FindOrCreate ==
  /\ \A k \in Keys :
       /\ awaiters[k] \in {NoAw} \cup DOMAIN aws
       /\ \A k2 \in Keys \ {k} :
            awaiters[k] # NoAw => awaiters[k2] # awaiters[k]
  /\ \A p \in Procs :
       pc[p] = "get_add" /\ loc[p].quiet =>
         /\ awaiters[loc[p].key] = loc[p].aw
         /\ \A q \in Procs :
              pc[q] = "get_add" /\ loc[q].quiet /\ loc[q].key = loc[p].key =>
                loc[q].aw = loc[p].aw
         /\ \A h \in DOMAIN hinfo :
              hinfo[h].quiet /\ hinfo[h].key = loc[p].key /\ Yields(h) = <<>>
                => hinfo[h].aw = loc[p].aw
  /\ \A h \in DOMAIN hinfo :
       hinfo[h].quiet /\ Yields(h) = <<>> =>
         /\ awaiters[hinfo[h].key] = hinfo[h].aw
         /\ \A g \in DOMAIN hinfo :
              hinfo[g].quiet /\ Yields(g) = <<>> /\ hinfo[g].key = hinfo[h].key
                => hinfo[g].aw = hinfo[h].aw
  /\ \A p \in Procs :
       ret[p].op = "Set" /\ ret[p].solo =>
         \A h \in QuietOwed(ret[p]) :
           /\ Yields(h) = <<ret[p].val>>
           /\ aws[hinfo[h].aw].by = ret[p].id
           /\ \A g \in QuietOwed(ret[p]) : hinfo[g].aw = hinfo[h].aw

\* two Gets ran concurrently, both past LoadOrStore with the same Awaiter,
\* and one of them has registered its handle
C22_Witness ==
  \E p \in Procs, h \in DOMAIN hinfo :
    /\ pc[p] = "get_add" /\ loc[p].quiet
    /\ hinfo[h].quiet /\ Yields(h) = <<>>
    /\ hinfo[h].aw = loc[p].aw
    /\ loc[p].id < nops
    /\ \E q \in Procs \ {p} :
         ret[q].op = "Get" /\ ret[q].ch = h /\ ret[q].id > loc[p].id

\* C23: every step of a Set(k, v) leaves the other keys alone: the stored
\* value and the awaiter-table entry of every k2 # k stay as they are, the
\* Awaiter of every handle registered on k2 stays as it is, and nothing is
\* sent to such a handle.
C23_PerKeyIndependence ==
  [][\A p \in Procs :
       (pc[p] = "idle" /\ pc'[p] \in SetPcs)
         \/ (pc[p] \in SetPcs /\ pc'[p] # pc[p]) =>
         LET k == IF pc[p] = "idle" THEN loc'[p].key ELSE loc[p].key IN
         /\ \A k2 \in Keys \ {k} :
              /\ Data'[k2] = Data[k2]
              /\ awaiters'[k2] = awaiters[k2]
         /\ \A h \in DOMAIN hinfo :
              hinfo[h].key # k =>
                /\ chans'[h] = chans[h]
                /\ hinfo'[h] = hinfo[h]
                /\ aws'[hinfo[h].aw] = aws[hinfo[h].aw]]_vars

\* a Set on one key has resolved its handle and returned while the other key
\* holds a value and an Awaiter with a pending handle
C23_Witness ==
  \E p \in Procs, g, h \in DOMAIN hinfo :
    /\ ret[p].op = "Set"
    /\ h \in ret[p].owes /\ Yields(h) = <<ret[p].val>>
    /\ hinfo[g].key # ret[p].key
    /\ Yields(g) = <<>>
    /\ awaiters[hinfo[g].key] = hinfo[g].aw
    /\ Data[hinfo[g].key] # Absent

\* C24 (as claimed): Descriptor() tags every stored value without a fault:
\* nil as null, a boolean as boolean, a string as string, an integer or a
\* float as number, a slice or an array as array, a map or a struct as
\* object, a function as function, a channel as promise, and a pointer as
\* its referent is tagged, or as null when the pointer is nil.
C24_TaggingTotal ==
  \A p \in Procs :
    ret[p].op \in {"Descriptor", "DescriptorPanic"}
      /\ ~customDescriptor.given =>
      LET referent(v) == IF v \in Pointers
                         THEN (IF Indirect(v) = Invalid THEN Nil
                               ELSE Indirect(v))
                         ELSE v
          final(v) == referent(referent(referent(v)))
          want(v) ==
            CASE v = Nil -> "null"
              [] v \in Bools -> "boolean"
              [] v \in Strings -> "string"
              [] v \in Numbers \cup Floats -> "number"
              [] v \in Slices \cup Arrays -> "array"
              [] v \in Maps \cup Structs -> "object"
              [] v \in Funcs -> "function"
              [] v \in Chans -> "promise"
      IN /\ ret[p].op = "Descriptor"
         /\ ~crashed
         /\ \A i \in 1..Len(ret[p].desc) :
              ret[p].desc[i].type = want(final(Data[ret[p].desc[i].key]))

\* C25 (as claimed): an Awaiter leaves the awaiter table only after it has
\* been resolved: every Awaiter with a registered handle that holds no value
\* yet is the table's entry of its key.
C25_RemovedOnlyResolved ==
  \A h \in DOMAIN hinfo :
    Yields(h) = <<>> =>
      /\ ~aws[hinfo[h].aw].done
      /\ awaiters[hinfo[h].key] = hinfo[h].aw

\* C26 (as claimed): in the store of src/microenv.go, every handle that a
\* Get(k, true) returned before the Set(k, v) that resolved its Awaiter
\* yields v to a receive.
C26_SharedChannelFanOut ==
  \A h \in DOMAIN hinfo :
    LET w == aws[hinfo[h].aw] IN
    recvd[h] # <<>> /\ w.done /\ hinfo[h].id < w.by =>
      recvd[h] = <<w.val>>

====
